---- MODULE Spec2Model ----
(***************************************************************************)
(* Model of the IBMDevDay2026 demo: the Express proxy (server.js) and the   *)
(* React client's session / quota / chat bookkeeping (frontend/src/App.js). *)
(*                                                                         *)
(* Two specifications are given.  SpecProxy runs the proxy's request        *)
(* handlers against an arbitrary caller and arbitrary upstream replies.     *)
(* SpecClient runs the browser client against an arbitrary proxy.           *)
(***************************************************************************)
EXTENDS Naturals, Integers, Sequences, FiniteSets, TLC

(***************************************************************************)
(* JavaScript values.  A string-valued field that is missing from a JSON    *)
(* body reads as undefined; it is represented by a reserved string.         *)
(***************************************************************************)
Undefined == "<undefined>"

\* JS truthiness of a string-or-undefined value: undefined and '' are falsy.
Truthy(v) == v # Undefined /\ v # ""

\* a || b on string-or-undefined values
OrElse(a, b) == IF Truthy(a) THEN a ELSE b

(***************************************************************************)
(* An error message is a fixed text followed by text copied from an         *)
(* upstream body (upstream = "" when nothing was copied).                   *)
(***************************************************************************)
Msg(fixed, upstream) == [fixed |-> fixed, upstream |-> upstream]
NoMsg == Msg(Undefined, "")

(***************************************************************************)
(* Proxy configuration (server.js).                                        *)
(***************************************************************************)
DEMO_USER     == "ibmdevday2026"
DEMO_PASSWORD == "##4456##Dft$ttCdF"
DefaultSystemPrompt == "You are a helpful assistant."
GenericChatError    == "WatsonX API call failed"

(***************************************************************************)
(* Request bodies a caller can post.                                        *)
(***************************************************************************)
ApiKeys       == {Undefined, "", "key1", "key2"}
SystemPrompts == {Undefined, "", "prompt1"}
Usernames     == {Undefined, DEMO_USER, "mallory"}
Passwords     == {Undefined, DEMO_PASSWORD, "guess"}

Turn(role, content) == [role |-> role, content |-> content]

\* The messages field: absent, a non-array value (a string, an object), or
\* an array of turns.
MsgField(kind, items) == [kind |-> kind, items |-> items]
MessagesValues ==
    { MsgField("undefined", <<>>), MsgField("string", <<>>),
      MsgField("emptystring", <<>>), MsgField("object", <<>>),
      MsgField("array", <<>>),
      MsgField("array", <<Turn("user", "hello")>>),
      MsgField("array", <<Turn("user", "hello"), Turn("assistant", "hi"),
                          Turn("user", "again")>>) }

\* !messages : undefined and '' are falsy; every other value is truthy
MessagesFalsy(m) == m.kind \in {"undefined", "emptystring"}
\* Array.isArray(messages)
IsArray(m) == m.kind = "array"

(***************************************************************************)
(* Replies of the identity-token endpoint to one fetch.                    *)
(*   neterr   : fetch rejects (network error)                               *)
(*   rejected : HTTP status not ok, body is raw error text                  *)
(*   ok       : HTTP ok, JSON body with access_token (possibly missing)     *)
(*   badjson  : HTTP ok, body is not JSON                                   *)
(***************************************************************************)
UpstreamTexts == {"BXNIM0415E: Provided API key could not be found", ""}
Tokens        == {"token1", Undefined}

IamReply(outcome, text, token) ==
    [outcome |-> outcome, text |-> text, token |-> token]
IamReplies ==
    {IamReply("neterr", "", Undefined), IamReply("badjson", "", Undefined)}
    \cup {IamReply("rejected", t, Undefined) : t \in UpstreamTexts}
    \cup {IamReply("ok", "", t) : t \in Tokens}

(***************************************************************************)
(* Replies of the chat-completion endpoint to one fetch.                   *)
(*   parse = "invalid" : the body is not JSON                               *)
(*   parse = "null"    : the body is the JSON value null                    *)
(*   parse = "object"  : a JSON object with the listed fields               *)
(***************************************************************************)
FailStatuses == {401, 500, 503}
Contents     == {"completion text", "", Undefined}
Usages       == {"usage1", Undefined}
ErrTexts     == {"upstream error detail", "", Undefined}

ChatReply(outcome, status, parse, errMsg, msg, hasChoice, content, usage) ==
    [content |-> content, outcome |-> outcome, status |-> status,
     parse |-> parse, errMsg |-> errMsg, msg |-> msg, hasChoice |-> hasChoice,
     usage |-> usage]

ChatFailReplies ==
    {ChatReply("http", s, p, Undefined, Undefined, FALSE, Undefined, Undefined) :
        s \in FailStatuses, p \in {"invalid", "null"}}
    \cup {ChatReply("http", s, "object", e, m, FALSE, Undefined, Undefined) :
        s \in FailStatuses, e \in ErrTexts, m \in {"other detail", Undefined}}
ChatOkReplies ==
    {ChatReply("http", 200, p, Undefined, Undefined, FALSE, Undefined, Undefined) :
        p \in {"invalid", "null", "object"}}
    \cup {ChatReply("http", 200, "object", Undefined, Undefined, TRUE, c, u) :
        c \in Contents, u \in Usages}
ChatReplies ==
    {ChatReply("neterr", 0, "invalid", Undefined, Undefined, FALSE, Undefined, Undefined)}
    \cup ChatFailReplies \cup ChatOkReplies

\* response.ok of a fetch Response
ResponseOk(reply) == reply.status >= 200 /\ reply.status <= 299


(***************************************************************************)
(* HTTP responses of the proxy.  Every body field is a string or undefined; *)
(* res.json drops undefined fields, so Undefined also stands for "absent".  *)
(***************************************************************************)
Response(status, error, content, usage, valid, success, message) ==
    [content |-> content, status |-> status, usage |-> usage, error |-> error,
     valid |-> valid, success |-> success, message |-> message]

ErrorResponse(status, error) ==
    Response(status, error, Undefined, Undefined, Undefined, Undefined, Undefined)

\* What a try block produced: a thrown error, or a response that was sent.
Threw(error)   == [error |-> error, threw |-> TRUE, value |-> Undefined]
Returned(v)    == [error |-> NoMsg, threw |-> FALSE, value |-> v]

LogEntry(label, detail) == [label |-> label, detail |-> detail]

(***************************************************************************)
(* getIAMToken(apiKey), from the reply of the identity-token endpoint on.   *)
(***************************************************************************)
getIAMToken(reply) ==
    CASE reply.outcome = "neterr"   -> Threw(Msg("fetch failed", ""))
      [] reply.outcome = "rejected" -> Threw(Msg("IAM token error: ", reply.text))
      [] reply.outcome = "badjson"  -> Threw(Msg("Unexpected token in JSON", ""))
      [] OTHER                      -> Returned(reply.token)

(***************************************************************************)
(* POST /api/auth/login                                                     *)
(***************************************************************************)
\* LoginResponse accepting a request when either credential matches
LoginResponse_EitherMatches(username, password) ==
    IF username = DEMO_USER \/ password = DEMO_PASSWORD
    THEN Response(200, NoMsg, Undefined, Undefined, Undefined, "true",
                  "Login successful")
    ELSE Response(401, NoMsg, Undefined, Undefined, Undefined, "false",
                  "Invalid credentials")

LoginResponse(username, password) ==
    IF username = DEMO_USER /\ password = DEMO_PASSWORD
    THEN Response(200, NoMsg, Undefined, Undefined, Undefined, "true",
                  "Login successful")
    ELSE Response(401, NoMsg, Undefined, Undefined, Undefined, "false",
                  "Invalid credentials")

(***************************************************************************)
(* POST /api/watsonx/chat : the checks made before any outbound call.       *)
(* Returns the 400 response, or NoResponse when the body passes.            *)
(***************************************************************************)
NoResponse == ErrorResponse(0, NoMsg)

\* ChatValidate without the Array.isArray test
ChatValidate_NoArrayTest(body) ==
    IF ~Truthy(body.apiKey)
    THEN ErrorResponse(400, Msg("API key is required", ""))
    ELSE IF MessagesFalsy(body.messages)
    THEN ErrorResponse(400, Msg("Messages array is required", ""))
    ELSE NoResponse

ChatValidate(body) ==
    IF ~Truthy(body.apiKey)
    THEN ErrorResponse(400, Msg("API key is required", ""))
    ELSE IF MessagesFalsy(body.messages) \/ ~IsArray(body.messages)
    THEN ErrorResponse(400, Msg("Messages array is required", ""))
    ELSE NoResponse

\* fullMessages with the system turn put after the request's messages
FullMessages_SystemLast(body) ==
    body.messages.items
    \o <<Turn("system", OrElse(body.systemPrompt, DefaultSystemPrompt))>>

\* fullMessages: the system turn followed by the request's messages
FullMessages(body) ==
    <<Turn("system", OrElse(body.systemPrompt, DefaultSystemPrompt))>>
    \o body.messages.items

\* the catch block of the chat handler
ChatCatch(error) ==
    [resp |-> ErrorResponse(500, error),
     log  |-> <<LogEntry("API error:", error)>>]

\* error.error?.message || error.message || 'WatsonX API call failed'
UpstreamErrorMessage(reply) ==
    IF Truthy(reply.errMsg) THEN Msg("", reply.errMsg)
    ELSE IF Truthy(reply.msg) THEN Msg("", reply.msg)
    ELSE Msg(GenericChatError, "")

\* ChatComplete answering a success with content || '' and no usage
ChatComplete_Reshaped(reply) ==
    IF reply.outcome = "neterr"
    THEN ChatCatch(Msg("fetch failed", ""))
    ELSE IF reply.parse = "invalid"
    THEN ChatCatch(Msg("Unexpected token in JSON", ""))
    ELSE IF ~ResponseOk(reply)
    THEN IF reply.parse = "null"
         THEN ChatCatch(Msg("Cannot read properties of null", ""))
         ELSE [resp |-> ErrorResponse(reply.status, UpstreamErrorMessage(reply)),
               log  |-> <<LogEntry("WatsonX error:",
                                   Msg("", OrElse(reply.errMsg, reply.msg)))>>]
    ELSE IF reply.parse = "null"
    THEN ChatCatch(Msg("Cannot read properties of null", ""))
    ELSE IF ~reply.hasChoice
    THEN ChatCatch(Msg("Cannot read properties of undefined", ""))
    ELSE [resp |-> Response(200, NoMsg, OrElse(reply.content, ""), Undefined,
                            Undefined, Undefined, Undefined),
          log  |-> <<>>]

(***************************************************************************)
(* POST /api/watsonx/chat, from the reply of the completion endpoint on:    *)
(* the response sent and the lines written to the console.                  *)
(***************************************************************************)
ChatComplete(reply) ==
    IF reply.outcome = "neterr"
    THEN ChatCatch(Msg("fetch failed", ""))
    ELSE IF reply.parse = "invalid"
    THEN ChatCatch(Msg("Unexpected token in JSON", ""))
    ELSE IF ~ResponseOk(reply)
    THEN IF reply.parse = "null"
         THEN ChatCatch(Msg("Cannot read properties of null", ""))
         ELSE [resp |-> ErrorResponse(reply.status, UpstreamErrorMessage(reply)),
               log  |-> <<LogEntry("WatsonX error:",
                                   Msg("", OrElse(reply.errMsg, reply.msg)))>>]
    ELSE IF reply.parse = "null"
    THEN ChatCatch(Msg("Cannot read properties of null", ""))
    ELSE IF ~reply.hasChoice
    THEN ChatCatch(Msg("Cannot read properties of undefined", ""))
    ELSE [resp |-> Response(200, NoMsg, reply.content, reply.usage,
                            Undefined, Undefined, Undefined),
          log  |-> <<>>]

(***************************************************************************)
(* POST /api/watsonx/validate                                               *)
(***************************************************************************)
ValidateMissingKey ==
    Response(400, Msg("API key is required", ""), Undefined, Undefined,
             "false", Undefined, Undefined)

\* ValidateComplete passing the caught error's message on to the caller
ValidateComplete_LeaksError(reply) ==
    IF getIAMToken(reply).threw
    THEN Response(401, getIAMToken(reply).error, Undefined, Undefined,
                  "false", Undefined, Undefined)
    ELSE Response(200, NoMsg, Undefined, Undefined, "true", Undefined, Undefined)

ValidateComplete(reply) ==
    IF getIAMToken(reply).threw
    THEN Response(401, Msg("Invalid API key", ""), Undefined, Undefined,
                  "false", Undefined, Undefined)
    ELSE Response(200, NoMsg, Undefined, Undefined, "true", Undefined, Undefined)


(***************************************************************************)
(* State of the proxy.  The process keeps no variables between requests;    *)
(* what is modelled is each request being served: where its handler stands  *)
(* (handlers are suspended at every await), the outbound calls it has made, *)
(* the responses it has sent and the console lines it has written.          *)
(***************************************************************************)
Reqs == {"req1"}
\* a request served at the same time as those of Reqs
Others == {"req2"}
Conns  == Reqs \cup Others

VARIABLES
    pc,                \* handler position: idle, chat_token, chat_completion,
                       \* validate_token, done
    req,               \* the request being served
    token,             \* const token of the chat handler
    tokenFetches,      \* fetches of the identity-token endpoint, in order
    completionFetches, \* fetches of the chat-completion endpoint, in order
    tokenReply,        \* what the identity-token endpoint answered
    completionReply,   \* what the chat-completion endpoint answered
    sent,              \* responses written to res, in order
    log                \* console.error lines written by the handler

proxyVars == <<pc, req, token, tokenFetches, completionFetches, tokenReply,
               completionReply, sent, log>>

(* State of the browser client (frontend/src/App.js) *)
VARIABLES
    today,               \* the current UTC day
    agentUsage,          \* localStorage 'agentUsage'
    watsonxApiKey,       \* localStorage 'watsonxApiKey' ('' = no item)
    sessionFlag,         \* sessionStorage 'isLoggedIn'
    isLoggedIn,          \* App state
    loginPending,        \* LoginPage.isLoading: a login call is outstanding
    activeAgent,         \* Dashboard state
    usage,               \* Dashboard state
    apiKey,              \* Dashboard state
    messages,            \* AgentChat state: the visible transcript
    conversationHistory, \* AgentChat ref
    isLoading,           \* AgentChat state
    chatError,           \* AgentChat state: the error banner
    inflight,            \* suspended handleSubmit calls of the mounted chat
    chatCalls,           \* calls made to the proxy's chat endpoint
    submits,             \* accepted submissions so far
    lastOp               \* the last user action or event

clientVars == <<today, agentUsage, watsonxApiKey, sessionFlag, isLoggedIn,
                loginPending, activeAgent, usage, apiKey, messages,
                conversationHistory, isLoading, chatError, inflight, chatCalls,
                submits, lastOp>>

vars == <<proxyVars, clientVars>>

storageVars   == <<agentUsage, watsonxApiKey, sessionFlag>>
dashboardVars == <<activeAgent, usage, apiKey>>
chatVars      == <<messages, conversationHistory, isLoading, chatError, inflight>>

Request(endpoint, key, msgs, systemPrompt, username, password) ==
    [username |-> username, password |-> password, apiKey |-> key,
     messages |-> msgs, systemPrompt |-> systemPrompt, endpoint |-> endpoint]

NoRequest ==
    Request("none", Undefined, MsgField("undefined", <<>>), Undefined,
            Undefined, Undefined)

ChatRequests ==
    {Request("chat", k, m, sp, Undefined, Undefined) :
        k \in ApiKeys, m \in MessagesValues, sp \in SystemPrompts}
ValidateRequests ==
    {Request("validate", k, MsgField("undefined", <<>>), Undefined,
             Undefined, Undefined) : k \in ApiKeys}
LoginRequests ==
    {Request("login", Undefined, MsgField("undefined", <<>>), Undefined, u, p) :
        u \in Usernames, p \in Passwords}

\* What arrives with request r and what the upstream services answer to it.
\* The requests of Reqs range over everything above; the request served
\* beside them is a well-formed one for the same key, answered with a
\* token of its own.
ChatRequestsOf(r) ==
    IF r \in Reqs THEN ChatRequests
    ELSE {Request("chat", "key1", MsgField("array", <<Turn("user", "hello")>>),
                  Undefined, Undefined, Undefined)}
ValidateRequestsOf(r) ==
    IF r \in Reqs THEN ValidateRequests
    ELSE {Request("validate", "key1", MsgField("undefined", <<>>), Undefined,
                  Undefined, Undefined)}
IamRepliesOf(r) ==
    IF r \in Reqs THEN IamReplies
    ELSE {IamReply("rejected", "", Undefined), IamReply("ok", "", "token2")}
ChatRepliesOf(r) ==
    IF r \in Reqs THEN ChatReplies
    ELSE {ChatReply("http", 200, "object", Undefined, Undefined, TRUE,
                    "completion text", "usage1"),
          ChatReply("http", 503, "invalid", Undefined, Undefined, FALSE,
                    Undefined, Undefined)}

CompletionFetch(tok, msgs) == [token |-> tok, messages |-> msgs]

\* no reply received (yet)
NoIamReply  == IamReply("none", "", Undefined)
NoChatReply ==
    ChatReply("none", 0, "invalid", Undefined, Undefined, FALSE, Undefined, Undefined)

\* no request has arrived
ProxyIdle ==
    /\ pc = [r \in Conns |-> "idle"]
    /\ req = [r \in Conns |-> NoRequest]
    /\ token = [r \in Conns |-> Undefined]
    /\ tokenFetches = [r \in Conns |-> <<>>]
    /\ completionFetches = [r \in Conns |-> <<>>]
    /\ tokenReply = [r \in Conns |-> NoIamReply]
    /\ completionReply = [r \in Conns |-> NoChatReply]
    /\ sent = [r \in Conns |-> <<>>]
    /\ log = [r \in Conns |-> <<>>]

\* A connection is free for a new request once the previous one is answered.
Free(r) == pc[r] \in {"idle", "done"}

\* the handler writing the key of the body to the console when it starts
Arrive_LogsBody(r, body, nextPc, iam, responses) ==
    /\ Free(r)
    /\ pc' = [pc EXCEPT ![r] = nextPc]
    /\ req' = [req EXCEPT ![r] = body]
    /\ token' = [token EXCEPT ![r] = Undefined]
    /\ tokenFetches' = [tokenFetches EXCEPT ![r] = iam]
    /\ completionFetches' = [completionFetches EXCEPT ![r] = <<>>]
    /\ tokenReply' = [tokenReply EXCEPT ![r] = NoIamReply]
    /\ completionReply' = [completionReply EXCEPT ![r] = NoChatReply]
    /\ sent' = [sent EXCEPT ![r] = responses]
    /\ log' = [log EXCEPT ![r] = <<LogEntry("request:", Msg(body.apiKey, ""))>>]
    /\ UNCHANGED clientVars

\* A request arrives: the handler starts with nothing called, sent or logged.
Arrive(r, body, nextPc, iam, responses) ==
    /\ Free(r)
    /\ pc' = [pc EXCEPT ![r] = nextPc]
    /\ req' = [req EXCEPT ![r] = body]
    /\ token' = [token EXCEPT ![r] = Undefined]
    /\ tokenFetches' = [tokenFetches EXCEPT ![r] = iam]
    /\ completionFetches' = [completionFetches EXCEPT ![r] = <<>>]
    /\ tokenReply' = [tokenReply EXCEPT ![r] = NoIamReply]
    /\ completionReply' = [completionReply EXCEPT ![r] = NoChatReply]
    /\ sent' = [sent EXCEPT ![r] = responses]
    /\ log' = [log EXCEPT ![r] = <<>>]
    /\ UNCHANGED clientVars

\* app.post('/api/auth/login')
Login(r) ==
    \E body \in LoginRequests :
        Arrive(r, body, "done", <<>>,
               <<LoginResponse(body.username, body.password)>>)

\* the chat handler reusing a token that a request with the same key
\* obtained before, instead of exchanging the key again
ChatReceive_CachedToken(r) ==
    \E body \in ChatRequestsOf(r) :
        IF ChatValidate(body) # NoResponse
        THEN Arrive(r, body, "done", <<>>, <<ChatValidate(body)>>)
        ELSE IF \E q \in Conns : token[q] # Undefined /\ req[q].apiKey = body.apiKey
        THEN \E q \in Conns :
                /\ token[q] # Undefined /\ req[q].apiKey = body.apiKey
                /\ Free(r)
                /\ pc' = [pc EXCEPT ![r] = "chat_completion"]
                /\ req' = [req EXCEPT ![r] = body]
                /\ token' = [token EXCEPT ![r] = token[q]]
                /\ tokenFetches' = [tokenFetches EXCEPT ![r] = <<>>]
                /\ completionFetches' = [completionFetches EXCEPT
                      ![r] = <<CompletionFetch(token[q], FullMessages(body))>>]
                /\ tokenReply' = [tokenReply EXCEPT ![r] = NoIamReply]
                /\ completionReply' = [completionReply EXCEPT ![r] = NoChatReply]
                /\ sent' = [sent EXCEPT ![r] = <<>>]
                /\ log' = [log EXCEPT ![r] = <<>>]
                /\ UNCHANGED clientVars
        ELSE Arrive(r, body, "chat_token", <<body.apiKey>>, <<>>)

\* app.post('/api/watsonx/chat'), up to the first await
ChatReceive(r) ==
    \E body \in ChatRequestsOf(r) :
        IF ChatValidate(body) # NoResponse
        THEN Arrive(r, body, "done", <<>>, <<ChatValidate(body)>>)
        ELSE Arrive(r, body, "chat_token", <<body.apiKey>>, <<>>)

\* the chat handler exchanging the key a second time when the first
\* exchange failed
ChatTokenReply_Retries(r) ==
    /\ pc[r] = "chat_token"
    /\ \E reply \in IamRepliesOf(r) :
        /\ tokenReply' = [tokenReply EXCEPT ![r] = reply]
        /\ IF getIAMToken(reply).threw /\ Len(tokenFetches[r]) < 2
              THEN /\ tokenFetches' = [tokenFetches EXCEPT
                         ![r] = @ \o <<req[r].apiKey>>]
                   /\ UNCHANGED <<pc, token, completionFetches, sent, log>>
              ELSE IF getIAMToken(reply).threw
              THEN /\ pc' = [pc EXCEPT ![r] = "done"]
                   /\ sent' = [sent EXCEPT
                         ![r] = @ \o <<ChatCatch(getIAMToken(reply).error).resp>>]
                   /\ log' = [log EXCEPT
                         ![r] = @ \o ChatCatch(getIAMToken(reply).error).log]
                   /\ UNCHANGED <<token, tokenFetches, completionFetches>>
              ELSE /\ pc' = [pc EXCEPT ![r] = "chat_completion"]
                   /\ token' = [token EXCEPT ![r] = getIAMToken(reply).value]
                   /\ completionFetches' = [completionFetches EXCEPT
                         ![r] = @ \o <<CompletionFetch(getIAMToken(reply).value,
                                                       FullMessages(req[r]))>>]
                   /\ UNCHANGED <<tokenFetches, sent, log>>
    /\ UNCHANGED <<req, completionReply>>
    /\ UNCHANGED clientVars

\* the identity-token endpoint answers; on success the completion fetch is made
ChatTokenReply(r) ==
    /\ pc[r] = "chat_token"
    /\ \E reply \in IamRepliesOf(r) :
        /\ tokenReply' = [tokenReply EXCEPT ![r] = reply]
        /\ IF getIAMToken(reply).threw
              THEN /\ pc' = [pc EXCEPT ![r] = "done"]
                   /\ sent' = [sent EXCEPT
                         ![r] = @ \o <<ChatCatch(getIAMToken(reply).error).resp>>]
                   /\ log' = [log EXCEPT
                         ![r] = @ \o ChatCatch(getIAMToken(reply).error).log]
                   /\ UNCHANGED <<token, completionFetches>>
              ELSE /\ pc' = [pc EXCEPT ![r] = "chat_completion"]
                   /\ token' = [token EXCEPT ![r] = getIAMToken(reply).value]
                   /\ completionFetches' = [completionFetches EXCEPT
                         ![r] = @ \o <<CompletionFetch(getIAMToken(reply).value,
                                                       FullMessages(req[r]))>>]
                   /\ UNCHANGED <<sent, log>>
    /\ UNCHANGED <<req, tokenFetches, completionReply>>
    /\ UNCHANGED clientVars

\* the chat handler without the return after relaying an upstream error: it
\* goes on to read the body a second time, which throws, and the catch block
\* sends again
ChatCompletionReply_NoReturn(r) ==
    /\ pc[r] = "chat_completion"
    /\ \E reply \in ChatRepliesOf(r) :
        /\ completionReply' = [completionReply EXCEPT ![r] = reply]
        /\ IF reply.outcome = "http" /\ reply.parse = "object" /\ ~ResponseOk(reply)
              THEN /\ sent' = [sent EXCEPT
                         ![r] = @ \o <<ChatComplete(reply).resp,
                                       ChatCatch(Msg("body used already", "")).resp>>]
                   /\ log' = [log EXCEPT
                         ![r] = @ \o ChatComplete(reply).log
                                  \o ChatCatch(Msg("body used already", "")).log]
              ELSE /\ sent' = [sent EXCEPT ![r] = @ \o <<ChatComplete(reply).resp>>]
                   /\ log' = [log EXCEPT ![r] = @ \o ChatComplete(reply).log]
    /\ pc' = [pc EXCEPT ![r] = "done"]
    /\ UNCHANGED <<req, token, tokenFetches, completionFetches, tokenReply>>
    /\ UNCHANGED clientVars

\* the chat-completion endpoint answers
ChatCompletionReply(r) ==
    /\ pc[r] = "chat_completion"
    /\ \E reply \in ChatRepliesOf(r) :
        /\ completionReply' = [completionReply EXCEPT ![r] = reply]
        /\ sent' = [sent EXCEPT ![r] = @ \o <<ChatComplete(reply).resp>>]
        /\ log' = [log EXCEPT ![r] = @ \o ChatComplete(reply).log]
    /\ pc' = [pc EXCEPT ![r] = "done"]
    /\ UNCHANGED <<req, token, tokenFetches, completionFetches, tokenReply>>
    /\ UNCHANGED clientVars

\* app.post('/api/watsonx/validate'), up to the await
ValidateReceive(r) ==
    \E body \in ValidateRequestsOf(r) :
        IF ~Truthy(body.apiKey)
        THEN Arrive(r, body, "done", <<>>, <<ValidateMissingKey>>)
        ELSE Arrive(r, body, "validate_token", <<body.apiKey>>, <<>>)

\* the identity-token endpoint answers a validate request
ValidateTokenReply(r) ==
    /\ pc[r] = "validate_token"
    /\ \E reply \in IamRepliesOf(r) :
        /\ tokenReply' = [tokenReply EXCEPT ![r] = reply]
        /\ sent' = [sent EXCEPT ![r] = @ \o <<ValidateComplete(reply)>>]
    /\ pc' = [pc EXCEPT ![r] = "done"]
    /\ UNCHANGED <<req, token, tokenFetches, completionFetches, completionReply,
                   log>>
    /\ UNCHANGED clientVars


(***************************************************************************)
(* The browser client (frontend/src/App.js).                               *)
(***************************************************************************)
MAX_CALLS_PER_DAY == 200

Agents  == {"emailRewriter", "bauEstimate"}
NoAgent == "none"

\* Bounds of the client model
MaxDay     == 1     \* midnights that pass
MaxSubmits == 2     \* chat submissions accepted, in this tab or another
MaxTurns   == 6     \* chat submissions accepted in a long conversation

\* getTodayKey(): the UTC date, as a day number
getTodayKey(day) == day

UsageRecord(date, e, b) == [date |-> date, emailRewriter |-> e, bauEstimate |-> b]

\* Usage records found in localStorage when the page is opened: nothing, or
\* a record written earlier the same day.
InitialUsage ==
    { <<>>, <<UsageRecord(0, 200, 199)>> }

\* getUsage returning the stored counters whatever their date
getUsage_IgnoresDate(stored, day) ==
    IF stored # <<>>
    THEN [stored[1] EXCEPT !.date = getTodayKey(day)]
    ELSE UsageRecord(getTodayKey(day), 0, 0)

\* getUsage(): stored is the content of localStorage 'agentUsage'
\* (<<>> when the item is missing)
getUsage(stored, day) ==
    IF stored # <<>> /\ stored[1].date = getTodayKey(day)
    THEN stored[1]
    ELSE UsageRecord(getTodayKey(day), 0, 0)

\* incrementUsage writing a record that holds the named agent's counter only
incrementUsage_DropsOthers(stored, day, agentId) ==
    [UsageRecord(getTodayKey(day), 0, 0)
        EXCEPT ![agentId] = getUsage(stored, day)[agentId] + 1]

\* incrementUsage(agentId): the record that is saved and returned
incrementUsage(stored, day, agentId) ==
    [getUsage(stored, day) EXCEPT ![agentId] = @ + 1]

\* transcript and history entries; the n-th accepted submission carries text n
Entry(role, kind, agent, n) == [role |-> role, kind |-> kind, agent |-> agent, n |-> n]
Greeting(agent) == Entry("assistant", "greeting", agent, 0)

\* what the user types into the chat box
Inputs == {"", "   ", "text"}
\* input.trim()
Trim(text) == IF text = "   " THEN "" ELSE text

\* keys the user types into the key configuration ('' = none)
KeyInputs == {"", "key1", "key2"}
\* the keys among them that the identity provider rejects
RejectedKeys == {"key2"}

\* answers to the client's chat call: a completion, or a failure (an error
\* status, a network error and an unreadable body all end in the catch block)
ChatResults == {"ok", "error"}
\* answers to a chat call made with key k: the proxy's token exchange fails
\* for a key the identity provider rejects
ChatResultsFor(k) == IF k \in RejectedKeys THEN {"error"} ELSE ChatResults
\* answers of the proxy to the client's login call
LoginResults == {"success", "rejected", "neterr"}

Op(op, agent, outcome) == [outcome |-> outcome, agent |-> agent, op |-> op]

Pending(agent, n, live, key) == [key |-> key, agent |-> agent, n |-> n, live |-> live]

\* Dashboard mounts: its state is initialised from storage; no chat is shown
MountDashboard ==
    /\ activeAgent' = NoAgent
    /\ usage' = getUsage(agentUsage, today)
    /\ apiKey' = watsonxApiKey
    /\ messages' = <<>>
    /\ conversationHistory' = <<>>
    /\ isLoading' = FALSE
    /\ chatError' = ""
    /\ inflight' = <<>>

\* the page has just been opened, logged out, over the given localStorage
PageOpened(stored) ==
    /\ today = 0
    /\ agentUsage = stored
    /\ watsonxApiKey = ""
    /\ sessionFlag = FALSE
    /\ isLoggedIn = FALSE
    /\ loginPending = FALSE
    /\ activeAgent = NoAgent
    /\ usage = UsageRecord(0, 0, 0)
    /\ apiKey = ""
    /\ messages = <<>>
    /\ conversationHistory = <<>>
    /\ isLoading = FALSE
    /\ chatError = ""
    /\ inflight = <<>>
    /\ chatCalls = 0
    /\ submits = 0
    /\ lastOp = Op("init", NoAgent, "")

\* Dashboard is not mounted: its state and the chat's state do not exist
NoDashboard ==
    /\ activeAgent' = NoAgent
    /\ usage' = UsageRecord(0, 0, 0)
    /\ apiKey' = ""
    /\ messages' = <<>>
    /\ conversationHistory' = <<>>
    /\ isLoading' = FALSE
    /\ chatError' = ""
    /\ inflight' = <<>>

\* LoginPage.handleSubmit, up to the await
LoginSubmit ==
    /\ ~isLoggedIn /\ ~loginPending
    /\ loginPending' = TRUE
    /\ lastOp' = Op("login", NoAgent, "sent")
    /\ UNCHANGED <<today, storageVars, isLoggedIn, dashboardVars, chatVars,
                   chatCalls, submits>>
    /\ UNCHANGED proxyVars

\* LoginPage.handleSubmit setting the flag whatever the proxy answered
LoginReply_AnyAnswer ==
    /\ ~isLoggedIn /\ loginPending
    /\ loginPending' = FALSE
    /\ \E result \in LoginResults :
        /\ lastOp' = Op("loginReply", NoAgent, result)
        /\ IF result # "neterr"
              THEN /\ sessionFlag' = TRUE
                   /\ isLoggedIn' = TRUE
                   /\ MountDashboard
              ELSE UNCHANGED <<sessionFlag, isLoggedIn, dashboardVars, chatVars>>
    /\ UNCHANGED <<today, agentUsage, watsonxApiKey, chatCalls, submits>>
    /\ UNCHANGED proxyVars

\* LoginPage.handleSubmit, from the proxy's answer on; App.handleLogin
LoginReply ==
    /\ ~isLoggedIn /\ loginPending
    /\ loginPending' = FALSE
    /\ \E result \in LoginResults :
        /\ lastOp' = Op("loginReply", NoAgent, result)
        /\ IF result = "success"
              THEN /\ sessionFlag' = TRUE
                   /\ isLoggedIn' = TRUE
                   /\ MountDashboard
              ELSE UNCHANGED <<sessionFlag, isLoggedIn, dashboardVars, chatVars>>
    /\ UNCHANGED <<today, agentUsage, watsonxApiKey, chatCalls, submits>>
    /\ UNCHANGED proxyVars

\* handleLogout removing the stored API key with the session flag
Logout_RemovesKey ==
    /\ isLoggedIn
    /\ sessionFlag' = FALSE
    /\ isLoggedIn' = FALSE
    /\ watsonxApiKey' = ""
    /\ NoDashboard
    /\ lastOp' = Op("logout", NoAgent, "")
    /\ UNCHANGED <<today, agentUsage, loginPending, chatCalls, submits>>
    /\ UNCHANGED proxyVars

\* handleLogout emptying localStorage as well
Logout_ClearsStorage ==
    /\ isLoggedIn
    /\ sessionFlag' = FALSE
    /\ isLoggedIn' = FALSE
    /\ agentUsage' = <<>>
    /\ NoDashboard
    /\ lastOp' = Op("logout", NoAgent, "")
    /\ UNCHANGED <<today, watsonxApiKey, loginPending, chatCalls, submits>>
    /\ UNCHANGED proxyVars

\* App.handleLogout
Logout ==
    /\ isLoggedIn
    /\ sessionFlag' = FALSE
    /\ isLoggedIn' = FALSE
    /\ NoDashboard
    /\ lastOp' = Op("logout", NoAgent, "")
    /\ UNCHANGED <<today, agentUsage, watsonxApiKey, loginPending, chatCalls,
                   submits>>
    /\ UNCHANGED proxyVars

\* the reload whose getUsage() saves the record it returns
Reload_PersistsReset ==
    /\ isLoggedIn' = sessionFlag
    /\ loginPending' = FALSE
    /\ IF sessionFlag THEN MountDashboard ELSE NoDashboard
    /\ agentUsage' = IF sessionFlag THEN <<getUsage(agentUsage, today)>>
                     ELSE agentUsage
    /\ lastOp' = Op("reload", NoAgent, "")
    /\ UNCHANGED <<today, watsonxApiKey, sessionFlag, chatCalls, submits>>
    /\ UNCHANGED proxyVars

\* The page is reloaded: App is constructed again from storage
Reload ==
    /\ isLoggedIn' = sessionFlag
    /\ loginPending' = FALSE
    /\ IF sessionFlag THEN MountDashboard ELSE NoDashboard
    /\ lastOp' = Op("reload", NoAgent, "")
    /\ UNCHANGED <<today, storageVars, chatCalls, submits>>
    /\ UNCHANGED proxyVars

\* AgentCard: remaining = MAX_CALLS_PER_DAY - used; isDisabled = remaining <= 0
AgentCardDisabled(u, agentId) == MAX_CALLS_PER_DAY - u[agentId] <= 0

\* handleSelectAgent comparing with > instead of >=
handleSelectAgent_OffByOne(active, currentUsage, agentId) ==
    IF active = agentId THEN "same"
    ELSE IF currentUsage[agentId] > MAX_CALLS_PER_DAY THEN "alert"
    ELSE "activated"

\* Dashboard.handleSelectAgent: what the handler decides
handleSelectAgent(active, currentUsage, agentId) ==
    IF active = agentId THEN "same"
    ELSE IF currentUsage[agentId] >= MAX_CALLS_PER_DAY THEN "alert"
    ELSE "activated"

\* the selection whose reset effect leaves the history ref as it was
SelectAgent_KeepsHistory(agentId) ==
    /\ isLoggedIn
    /\ LET outcome == IF AgentCardDisabled(usage, agentId) THEN "disabled"
                      ELSE handleSelectAgent(activeAgent,
                                             getUsage(agentUsage, today), agentId)
       IN /\ lastOp' = Op("select", agentId, outcome)
          /\ IF outcome = "activated"
                THEN /\ activeAgent' = agentId
                     /\ messages' = <<Greeting(agentId)>>
                     /\ chatError' = ""
                ELSE UNCHANGED <<activeAgent, messages, chatError>>
    /\ UNCHANGED <<today, storageVars, isLoggedIn, loginPending, usage, apiKey,
                   conversationHistory, isLoading, inflight, chatCalls, submits>>
    /\ UNCHANGED proxyVars

\* The user clicks an agent card's button.  A disabled button does nothing;
\* otherwise handleSelectAgent runs, and when the active agent changes the
\* chat's reset effect runs with it.
SelectAgent(agentId) ==
    /\ isLoggedIn
    /\ LET outcome == IF AgentCardDisabled(usage, agentId) THEN "disabled"
                      ELSE handleSelectAgent(activeAgent,
                                             getUsage(agentUsage, today), agentId)
       IN /\ lastOp' = Op("select", agentId, outcome)
          /\ IF outcome = "activated"
                THEN /\ activeAgent' = agentId
                     /\ conversationHistory' = <<>>
                     /\ messages' = <<Greeting(agentId)>>
                     /\ chatError' = ""
                ELSE UNCHANGED <<activeAgent, conversationHistory, messages,
                                 chatError>>
    /\ UNCHANGED <<today, storageVars, isLoggedIn, loginPending, usage, apiKey,
                   isLoading, inflight, chatCalls, submits>>
    /\ UNCHANGED proxyVars

\* the guard of handleSubmit without its isLoading test
SubmitAccepted_IgnoresLoading(text, loading) == Trim(text) # ""

\* AgentChat.handleSubmit: is the submission accepted
SubmitAccepted(text, loading) == Trim(text) # "" /\ ~loading

\* handleSubmit counting the submission only when a key is set
SubmitWithin_CountsOnlyLive(text, budget) ==
    /\ isLoggedIn /\ activeAgent # NoAgent
    /\ IF ~SubmitAccepted(text, isLoading)
          THEN /\ lastOp' = Op("submit", activeAgent, "rejected")
               /\ UNCHANGED <<agentUsage, usage, messages, isLoading, chatError,
                              inflight, chatCalls, submits>>
          ELSE /\ submits < budget
               /\ submits' = submits + 1
               /\ lastOp' = Op("submit", activeAgent, "accepted")
               /\ chatError' = ""
               /\ messages' = Append(messages,
                                 Entry("user", "user", activeAgent, submits + 1))
               /\ isLoading' = TRUE
               /\ IF Truthy(apiKey)
                     THEN /\ agentUsage' =
                               <<incrementUsage(agentUsage, today, activeAgent)>>
                          /\ usage' = incrementUsage(agentUsage, today, activeAgent)
                     ELSE UNCHANGED <<agentUsage, usage>>
               /\ inflight' = Append(inflight,
                                 Pending(activeAgent, submits + 1, Truthy(apiKey),
                                         apiKey))
               /\ chatCalls' = IF Truthy(apiKey) THEN chatCalls + 1 ELSE chatCalls
    /\ UNCHANGED <<today, watsonxApiKey, sessionFlag, isLoggedIn, loginPending,
                   activeAgent, apiKey, conversationHistory>>
    /\ UNCHANGED proxyVars

\* handleSubmit calling the chat endpoint whether or not a key is set
SubmitWithin_AlwaysCalls(text, budget) ==
    /\ isLoggedIn /\ activeAgent # NoAgent
    /\ IF ~SubmitAccepted(text, isLoading)
          THEN /\ lastOp' = Op("submit", activeAgent, "rejected")
               /\ UNCHANGED <<agentUsage, usage, messages, isLoading, chatError,
                              inflight, chatCalls, submits>>
          ELSE /\ submits < budget
               /\ submits' = submits + 1
               /\ lastOp' = Op("submit", activeAgent, "accepted")
               /\ chatError' = ""
               /\ messages' = Append(messages,
                                 Entry("user", "user", activeAgent, submits + 1))
               /\ isLoading' = TRUE
               /\ agentUsage' = <<incrementUsage(agentUsage, today, activeAgent)>>
               /\ usage' = incrementUsage(agentUsage, today, activeAgent)
               /\ inflight' = Append(inflight,
                                 Pending(activeAgent, submits + 1, TRUE, apiKey))
               /\ chatCalls' = chatCalls + 1
    /\ UNCHANGED <<today, watsonxApiKey, sessionFlag, isLoggedIn, loginPending,
                   activeAgent, apiKey, conversationHistory>>
    /\ UNCHANGED proxyVars

\* AgentChat.handleSubmit up to the await, with Dashboard.handleIncrement;
\* budget bounds the number of accepted submissions explored
SubmitWithin(text, budget) ==
    /\ isLoggedIn /\ activeAgent # NoAgent
    /\ IF ~SubmitAccepted(text, isLoading)
          THEN /\ lastOp' = Op("submit", activeAgent, "rejected")
               /\ UNCHANGED <<agentUsage, usage, messages, isLoading, chatError,
                              inflight, chatCalls, submits>>
          ELSE /\ submits < budget
               /\ submits' = submits + 1
               /\ lastOp' = Op("submit", activeAgent, "accepted")
               /\ chatError' = ""
               /\ messages' = Append(messages,
                                 Entry("user", "user", activeAgent, submits + 1))
               /\ isLoading' = TRUE
               /\ agentUsage' = <<incrementUsage(agentUsage, today, activeAgent)>>
               /\ usage' = incrementUsage(agentUsage, today, activeAgent)
               /\ inflight' = Append(inflight,
                                 Pending(activeAgent, submits + 1, Truthy(apiKey),
                                         apiKey))
               /\ chatCalls' = IF Truthy(apiKey) THEN chatCalls + 1 ELSE chatCalls
    /\ UNCHANGED <<today, watsonxApiKey, sessionFlag, isLoggedIn, loginPending,
                   activeAgent, apiKey, conversationHistory>>
    /\ UNCHANGED proxyVars

\* the user submits the chat form
Submit(text) == SubmitWithin(text, MaxSubmits)

\* the user submits the chat form, in a long conversation
ChatSubmit(text) == SubmitWithin(text, MaxTurns)

\* the truncation keeping the oldest entries: slice(0, 10)
KeepLast_FirstTen(h) == IF Len(h) > 10 THEN SubSeq(h, 1, 10) ELSE h

\* conversationHistory.current.slice(-10) when longer than 10
KeepLast(h) == IF Len(h) > 10 THEN SubSeq(h, Len(h) - 9, Len(h)) ELSE h

\* handleSubmit pushing the user turn onto the history although the call failed
SubmitReply_KeepsFailedTurn ==
    /\ inflight # <<>> /\ Head(inflight).live
    /\ LET p == Head(inflight) IN
       \E result \in ChatResultsFor(p.key) :
        /\ lastOp' = Op("chatReply", p.agent, result)
        /\ IF result = "ok"
              THEN /\ conversationHistory' =
                         KeepLast(conversationHistory \o
                                  <<Entry("user", "user", p.agent, p.n),
                                    Entry("assistant", "reply", p.agent, p.n)>>)
                   /\ messages' = Append(messages,
                                     Entry("assistant", "reply", p.agent, p.n))
                   /\ UNCHANGED chatError
              ELSE /\ chatError' = result
                   /\ messages' = Append(messages,
                                     Entry("assistant", "error", p.agent, p.n))
                   /\ conversationHistory' =
                         KeepLast(Append(conversationHistory,
                                         Entry("user", "user", p.agent, p.n)))
    /\ inflight' = Tail(inflight)
    /\ isLoading' = FALSE
    /\ UNCHANGED <<today, storageVars, isLoggedIn, loginPending, dashboardVars,
                   chatCalls, submits>>
    /\ UNCHANGED proxyVars

\* handleSubmit without its finally block when the call failed
SubmitReply_NoFinally ==
    /\ inflight # <<>> /\ Head(inflight).live
    /\ LET p == Head(inflight) IN
       \E result \in ChatResultsFor(p.key) :
        /\ lastOp' = Op("chatReply", p.agent, result)
        /\ IF result = "ok"
              THEN /\ conversationHistory' =
                         KeepLast(conversationHistory \o
                                  <<Entry("user", "user", p.agent, p.n),
                                    Entry("assistant", "reply", p.agent, p.n)>>)
                   /\ messages' = Append(messages,
                                     Entry("assistant", "reply", p.agent, p.n))
                   /\ isLoading' = FALSE
                   /\ UNCHANGED chatError
              ELSE /\ chatError' = result
                   /\ messages' = Append(messages,
                                     Entry("assistant", "error", p.agent, p.n))
                   /\ UNCHANGED <<conversationHistory, isLoading>>
    /\ inflight' = Tail(inflight)
    /\ UNCHANGED <<today, storageVars, isLoggedIn, loginPending, dashboardVars,
                   chatCalls, submits>>
    /\ UNCHANGED proxyVars

\* AgentChat.handleSubmit, live mode, from the proxy's answer on
SubmitReply ==
    /\ inflight # <<>> /\ Head(inflight).live
    /\ LET p == Head(inflight) IN
       \E result \in ChatResultsFor(p.key) :
        /\ lastOp' = Op("chatReply", p.agent, result)
        /\ IF result = "ok"
              THEN /\ conversationHistory' =
                         KeepLast(conversationHistory \o
                                  <<Entry("user", "user", p.agent, p.n),
                                    Entry("assistant", "reply", p.agent, p.n)>>)
                   /\ messages' = Append(messages,
                                     Entry("assistant", "reply", p.agent, p.n))
                   /\ UNCHANGED chatError
              ELSE /\ chatError' = result
                   /\ messages' = Append(messages,
                                     Entry("assistant", "error", p.agent, p.n))
                   /\ UNCHANGED conversationHistory
    /\ inflight' = Tail(inflight)
    /\ isLoading' = FALSE
    /\ UNCHANGED <<today, storageVars, isLoggedIn, loginPending, dashboardVars,
                   chatCalls, submits>>
    /\ UNCHANGED proxyVars

\* AgentChat.handleSubmit, demo mode, once the simulated delay has passed
DemoReply ==
    /\ inflight # <<>> /\ ~Head(inflight).live
    /\ LET p == Head(inflight) IN
        /\ lastOp' = Op("demoReply", p.agent, "")
        /\ messages' = Append(messages, Entry("assistant", "demo", p.agent, p.n))
    /\ inflight' = Tail(inflight)
    /\ isLoading' = FALSE
    /\ UNCHANGED <<today, storageVars, isLoggedIn, loginPending, dashboardVars,
                   conversationHistory, chatError, chatCalls, submits>>
    /\ UNCHANGED proxyVars

\* ApiKeyConfig.handleSave, the text field holding k
SaveKey(k) ==
    /\ isLoggedIn
    /\ apiKey' = k
    /\ watsonxApiKey' = IF Truthy(k) THEN k ELSE ""
    /\ lastOp' = Op("saveKey", NoAgent, k)
    /\ UNCHANGED <<today, agentUsage, sessionFlag, isLoggedIn, loginPending,
                   activeAgent, usage, chatVars, chatCalls, submits>>
    /\ UNCHANGED proxyVars

\* ApiKeyConfig.handleClear (the button exists only while a key is set)
ClearKey ==
    /\ isLoggedIn /\ Truthy(apiKey)
    /\ apiKey' = ""
    /\ watsonxApiKey' = ""
    /\ lastOp' = Op("clearKey", NoAgent, "")
    /\ UNCHANGED <<today, agentUsage, sessionFlag, isLoggedIn, loginPending,
                   activeAgent, usage, chatVars, chatCalls, submits>>
    /\ UNCHANGED proxyVars

\* Midnight (UTC) passes
DayAdvance ==
    /\ today < MaxDay
    /\ today' = today + 1
    /\ lastOp' = Op("midnight", NoAgent, "")
    /\ UNCHANGED <<storageVars, isLoggedIn, loginPending, dashboardVars, chatVars,
                   chatCalls, submits>>
    /\ UNCHANGED proxyVars

\* A chat submission is accepted in another tab of the same browser, which
\* shares localStorage: handleIncrement runs there
OtherTabSubmit(agentId) ==
    /\ submits < MaxSubmits
    /\ submits' = submits + 1
    /\ agentUsage' = <<incrementUsage(agentUsage, today, agentId)>>
    /\ lastOp' = Op("otherTab", agentId, "accepted")
    /\ UNCHANGED <<today, watsonxApiKey, sessionFlag, isLoggedIn, loginPending,
                   dashboardVars, chatVars, chatCalls>>
    /\ UNCHANGED proxyVars

(***************************************************************************)
(* Specifications                                                           *)
(***************************************************************************)
NextProxy ==
    \/ \E r \in Reqs : Login(r)
    \/ \E r \in Reqs : ChatReceive(r)
    \/ \E r \in Reqs : ChatTokenReply(r)
    \/ \E r \in Reqs : ChatCompletionReply(r)
    \/ \E r \in Reqs : ValidateReceive(r)
    \/ \E r \in Reqs : ValidateTokenReply(r)

NextClient ==
    \/ LoginSubmit
    \/ LoginReply
    \/ Logout
    \/ Reload
    \/ \E a \in Agents : SelectAgent(a)
    \/ \E text \in Inputs : Submit(text)
    \/ SubmitReply
    \/ DemoReply
    \/ \E k \in KeyInputs : SaveKey(k)
    \/ ClearKey
    \/ DayAdvance
    \/ \E a \in Agents : OtherTabSubmit(a)

\* the client in a single tab: nothing else writes localStorage
NextOneTab ==
    \/ LoginSubmit
    \/ LoginReply
    \/ Logout
    \/ Reload
    \/ \E a \in Agents : SelectAgent(a)
    \/ \E text \in Inputs : Submit(text)
    \/ SubmitReply
    \/ DemoReply
    \/ \E k \in KeyInputs : SaveKey(k)
    \/ ClearKey
    \/ DayAdvance

\* the proxy serving requests; no browser client is running
InitProxy == ProxyIdle /\ PageOpened(<<>>)
SpecProxy == InitProxy /\ [][NextProxy]_vars

\* the proxy serving a second request while it serves the first
NextProxyPair ==
    \/ \E r \in Reqs : Login(r)
    \/ \E r \in Conns : ChatReceive(r)
    \/ \E r \in Conns : ChatTokenReply(r)
    \/ \E r \in Conns : ChatCompletionReply(r)
    \/ \E r \in Conns : ValidateReceive(r)
    \/ \E r \in Conns : ValidateTokenReply(r)
SpecProxyPair == InitProxy /\ [][NextProxyPair]_vars

\* the browser client; the proxy is represented by its answers
InitClient == \E stored \in InitialUsage : ProxyIdle /\ PageOpened(stored)
SpecClient == InitClient /\ [][NextClient]_vars
SpecOneTab == InitClient /\ [][NextOneTab]_vars

\* the client when every outstanding chat call is answered in the end:
\* the proxy answers or the fetch fails, and the demo delay runs out
SpecOneTabLive ==
    SpecOneTab /\ WF_vars(SubmitReply) /\ WF_vars(DemoReply)

\* a long conversation: the user has logged in and saved a key, and from
\* then on selects agents and chats
InitChat ==
    /\ ProxyIdle
    /\ today = 0
    /\ agentUsage = <<>>
    /\ watsonxApiKey = "key1"
    /\ sessionFlag = TRUE
    /\ isLoggedIn = TRUE
    /\ loginPending = FALSE
    /\ activeAgent = NoAgent
    /\ usage = getUsage(<<>>, 0)
    /\ apiKey = "key1"
    /\ messages = <<>>
    /\ conversationHistory = <<>>
    /\ isLoading = FALSE
    /\ chatError = ""
    /\ inflight = <<>>
    /\ chatCalls = 0
    /\ submits = 0
    /\ lastOp = Op("saveKey", NoAgent, "key1")

NextChat ==
    \/ \E a \in Agents : SelectAgent(a)
    \/ \E text \in Inputs : ChatSubmit(text)
    \/ SubmitReply

SpecChat == InitChat /\ [][NextChat]_vars

\* a long conversation in which the user also clears the key and saves it
\* again, so that demo exchanges and live ones follow each other
NextChatModes ==
    \/ \E a \in Agents : SelectAgent(a)
    \/ \E text \in Inputs : ChatSubmit(text)
    \/ SubmitReply
    \/ DemoReply
    \/ SaveKey("key1")
    \/ ClearKey

SpecChatModes == InitChat /\ [][NextChatModes]_vars


(***************************************************************************)
(* Properties of the proxy (checked under SpecProxy)                        *)
(***************************************************************************)
ChatDone(r)     == req[r].endpoint = "chat" /\ pc[r] = "done"
ValidateDone(r) == req[r].endpoint = "validate" /\ pc[r] = "done"
LoginDone(r)    == req[r].endpoint = "login" /\ pc[r] = "done"

\* C1: a chat request whose body has no apiKey, or whose messages field is
\* absent or not an array, is answered with exactly one response of status
\* 400, and neither the identity-token endpoint nor the chat-completion
\* endpoint is called for it.
C1_MalformedChatRejected ==
    \A r \in Reqs :
        ( /\ req[r].endpoint = "chat"
          /\ \/ ~Truthy(req[r].apiKey)
             \/ ~IsArray(req[r].messages) )
        => /\ pc[r] = "done"
           /\ Len(sent[r]) = 1
           /\ sent[r][1].status = 400
           /\ tokenFetches[r] = <<>>
           /\ completionFetches[r] = <<>>

\* a chat request with a key whose messages field is an object was answered
C1_Witness ==
    \E r \in Reqs :
        /\ ChatDone(r)
        /\ Truthy(req[r].apiKey)
        /\ req[r].messages.kind = "object"
        /\ sent[r] # <<>>

\* C2: when the token exchange succeeded and the completion endpoint
\* answered with a success status and a body holding choices[0].message, the
\* one response sent is 200 with content = choices[0].message.content and
\* usage = the upstream usage, and nothing else.
C2_SuccessRelaysContentAndUsage ==
    \A r \in Reqs :
        ( /\ ChatDone(r)
          /\ tokenReply[r].outcome = "ok"
          /\ completionReply[r].outcome = "http"
          /\ ResponseOk(completionReply[r])
          /\ completionReply[r].parse = "object"
          /\ completionReply[r].hasChoice )
        => sent[r] = << [content |-> completionReply[r].content,
                         status |-> 200,
                         usage |-> completionReply[r].usage,
                         error |-> NoMsg,
                         valid |-> Undefined, success |-> Undefined,
                         message |-> Undefined] >>

\* a completion with text and usage was relayed
C2_Witness ==
    \E r \in Reqs :
        /\ ChatDone(r)
        /\ completionReply[r].hasChoice
        /\ completionReply[r].content = "completion text"
        /\ completionReply[r].usage = "usage1"
        /\ Len(sent[r]) = 1
        /\ sent[r][1].content = "completion text"

\* C3 (as claimed): whenever the completion endpoint answers with a
\* non-success status, the response carries that status and a message taken
\* from the upstream body, or 'WatsonX API call failed' when the body has no
\* usable message, whatever the body is.
C3_UpstreamFailureRelayed ==
    \A r \in Reqs :
        ( /\ ChatDone(r)
          /\ completionReply[r].outcome = "http"
          /\ ~ResponseOk(completionReply[r]) )
        => /\ Len(sent[r]) = 1
           /\ sent[r][1].status = completionReply[r].status
           /\ LET body == completionReply[r]
                  usable == body.parse = "object"
                            /\ (Truthy(body.errMsg) \/ Truthy(body.msg))
              IN IF usable
                 THEN sent[r][1].error \in
                        {Msg("", body.errMsg), Msg("", body.msg)}
                 ELSE sent[r][1].error = Msg("WatsonX API call failed", "")

\* an exception was raised during the external calls of the chat request
ChatRaised(r) ==
    \/ tokenReply[r].outcome \in {"neterr", "rejected", "badjson"}
    \/ completionReply[r].outcome = "neterr"
    \/ /\ completionReply[r].outcome = "http"
       /\ \/ completionReply[r].parse \in {"invalid", "null"}
          \/ ResponseOk(completionReply[r]) /\ ~completionReply[r].hasChoice

\* C4 (as claimed): an exception raised during the external calls yields a
\* 500 whose message contains none of the upstream's error text.
C4_ExceptionMessageGeneric ==
    \A r \in Reqs :
        (ChatDone(r) /\ ChatRaised(r))
        => /\ Len(sent[r]) = 1
           /\ sent[r][1].status = 500
           /\ sent[r][1].error.upstream = ""

\* C5: a validate request is answered valid=true exactly when the token
\* exchange succeeded; every failure is answered valid=false with one of two
\* fixed bodies (key missing / key not accepted), whatever the upstream said.
C5_ValidateNormalizesFailures ==
    \A r \in Reqs :
        ValidateDone(r)
        => /\ Len(sent[r]) = 1
           /\ (sent[r][1].valid = "true") <=> (tokenReply[r].outcome = "ok")
           /\ sent[r][1].valid \in {"true", "false"}
           /\ sent[r][1].valid = "false" =>
                sent[r][1] =
                    IF Truthy(req[r].apiKey)
                    THEN [content |-> Undefined, status |-> 401,
                          usage |-> Undefined,
                          error |-> Msg("Invalid API key", ""),
                          valid |-> "false", success |-> Undefined,
                          message |-> Undefined]
                    ELSE [content |-> Undefined, status |-> 400,
                          usage |-> Undefined,
                          error |-> Msg("API key is required", ""),
                          valid |-> "false", success |-> Undefined,
                          message |-> Undefined]

\* a key was rejected upstream with an error text, and the request answered
C5_Witness ==
    \E r \in Reqs :
        /\ ValidateDone(r)
        /\ tokenReply[r].outcome = "rejected"
        /\ tokenReply[r].text # ""
        /\ sent[r] # <<>>

\* C6: a login request is answered success=true exactly when username and
\* password both equal the configured values; any other pair is answered 401
\* with success=false; the response carries nothing but success and message,
\* and no token is obtained.
C6_LoginIffBothMatch ==
    \A r \in Reqs :
        LoginDone(r)
        => /\ Len(sent[r]) = 1
           /\ (sent[r][1].success = "true") <=>
                (req[r].username = "ibmdevday2026"
                 /\ req[r].password = "##4456##Dft$ttCdF")
           /\ sent[r][1].success = "true" => sent[r][1].status = 200
           /\ sent[r][1].success # "true" =>
                (sent[r][1].status = 401 /\ sent[r][1].success = "false")
           /\ sent[r][1].content = Undefined
           /\ sent[r][1].usage = Undefined
           /\ sent[r][1].valid = Undefined
           /\ sent[r][1].error = NoMsg
           /\ token[r] = Undefined
           /\ tokenFetches[r] = <<>>

\* the right user name with a wrong password was refused
C6_Witness ==
    \E r \in Reqs :
        /\ LoginDone(r)
        /\ req[r].username = DEMO_USER
        /\ req[r].password = "guess"
        /\ Len(sent[r]) = 1
        /\ sent[r][1].status = 401

(***************************************************************************)
(* Properties of the client (checked under SpecClient)                      *)
(***************************************************************************)
\* today's counter of an agent, as getUsage() reads it
Used(agentId) == getUsage(agentUsage, today)[agentId]

\* C7 (as claimed): no agent's counter for the day exceeds 200.
C7_QuotaNeverExceeded ==
    \A a \in Agents : Used(a) <= 200

\* C8: a click on the card of an agent whose counter for today is 200 or
\* more leaves the active agent and the transcript as they were and makes no
\* call to the chat endpoint; when the click reaches handleSelectAgent for
\* an agent that is not the active one, the alert is raised.
C8_SelectAtLimitRefused ==
    [][ \A a \in Agents :
          ( /\ lastOp'.op = "select"
            /\ lastOp'.agent = a
            /\ Used(a) >= 200 )
          => /\ activeAgent' = activeAgent
             /\ chatCalls' = chatCalls
             /\ messages' = messages
             /\ inflight' = inflight
             /\ (~AgentCardDisabled(usage, a) /\ activeAgent # a)
                  => lastOp'.outcome = "alert"
      ]_vars

\* handleSelectAgent refused an agent at its limit whose button was enabled
C8_Witness ==
    /\ lastOp.op = "select"
    /\ lastOp.outcome = "alert"
    /\ Used(lastOp.agent) >= 200
    /\ activeAgent # lastOp.agent

\* the stored record is missing or carries another date than today's
Stale == agentUsage = <<>> \/ agentUsage[1].date # today

\* C9: when the stored record is missing or dated another day, getUsage()
\* returns a record dated today with every counter 0; the Dashboard
\* constructed over such storage shows that record.
C9_StaleUsageReadsZero ==
    Stale =>
        /\ getUsage(agentUsage, today) =
              [date |-> today, emailRewriter |-> 0, bauEstimate |-> 0]
        /\ (isLoggedIn /\ lastOp.op \in {"reload", "loginReply"})
              => usage = [date |-> today, emailRewriter |-> 0, bauEstimate |-> 0]

\* the Dashboard was constructed over a record of the day before whose
\* counters were at or next to the limit
C9_Witness ==
    /\ agentUsage # <<>>
    /\ agentUsage[1].date # today
    /\ agentUsage[1].emailRewriter >= 200
    /\ agentUsage[1].bauEstimate >= 199
    /\ isLoggedIn
    /\ lastOp.op = "reload"
    /\ usage.emailRewriter = 0

\* C10: every call of incrementUsage(agentId) (an accepted submission, in
\* this tab or another) stores a record dated today in which the named
\* agent's counter is one more than getUsage() read before the call and the
\* other agent's counter is what getUsage() read; the record returned to
\* handleIncrement is the stored one.
C10_IncrementByOne ==
    [][ \A a \in Agents :
          ( /\ lastOp'.op \in {"submit", "otherTab"}
            /\ lastOp'.outcome = "accepted"
            /\ lastOp'.agent = a )
          => /\ Len(agentUsage') = 1
             /\ agentUsage'[1].date = today
             /\ agentUsage'[1][a] = Used(a) + 1
             /\ \A b \in Agents \ {a} : agentUsage'[1][b] = Used(b)
             /\ lastOp'.op = "submit" => usage' = agentUsage'[1]
      ]_vars

\* two submissions were accepted for one agent, starting from no record
C10_Witness ==
    /\ lastOp.op = "submit"
    /\ lastOp.outcome = "accepted"
    /\ submits = 2
    /\ today = 0
    /\ agentUsage = <<usage>>
    /\ usage[lastOp.agent] = 2

\* C11: while the calendar day stays the same, no step of the client (login,
\* logout, reload, selection, submission, reply, key change, a submission
\* in another tab) makes the counter getUsage() reads for an agent smaller
\* than it was.
C11_UsageNeverDecreasesWithinDay ==
    [][ today' = today =>
          \A a \in Agents : getUsage(agentUsage', today')[a] >= Used(a) ]_vars

\* the user logged out after chatting: the counters written before are kept
C11_Witness ==
    /\ lastOp.op = "logout"
    /\ chatCalls >= 1
    /\ agentUsage # <<>>
    /\ agentUsage[1].date = today
    /\ \E a \in Agents : Used(a) >= 2

\* C12 (as claimed): once midnight has passed over the open dashboard, a
\* click on the card of an agent whose counter stood at 200 or more the day
\* before, made before anything else is done, activates that agent.
C12_SelectableAfterMidnight ==
    [][ \A a \in Agents :
          ( /\ lastOp.op = "midnight"
            /\ isLoggedIn
            /\ agentUsage # <<>>
            /\ agentUsage[1].date # today
            /\ agentUsage[1][a] >= MAX_CALLS_PER_DAY
            /\ lastOp'.op = "select"
            /\ lastOp'.agent = a )
          => /\ lastOp'.outcome = "activated"
             /\ activeAgent' = a
      ]_vars

(***************************************************************************)
(* Properties of the conversation (checked under SpecChat and SpecClient)   *)
(***************************************************************************)
\* the turns of the exchanges the transcript m shows as answered, in order:
\* each reply preceded by the user turn it answers
RECURSIVE Exchanged(_)
Exchanged(m) ==
    IF m = <<>> THEN <<>>
    ELSE IF Head(m).kind = "reply"
         THEN <<Entry("user", "user", Head(m).agent, Head(m).n), Head(m)>>
                  \o Exchanged(Tail(m))
         ELSE Exchanged(Tail(m))

\* the last 10 elements of s (all of s when it has fewer), in their order
MostRecent10(s) ==
    LET k == IF Len(s) < 10 THEN Len(s) ELSE 10
    IN  [i \in 1..k |-> s[Len(s) - k + i]]

\* C13: the conversation history never holds more than 10 entries, and it
\* is the 10 most recent turns of the answered exchanges, in their original
\* order (all of them while there are 10 or fewer).
C13_HistoryKeepsLastTen ==
    (isLoggedIn /\ activeAgent # NoAgent) =>
        /\ Len(conversationHistory) <= 10
        /\ conversationHistory = MostRecent10(Exchanged(messages))

\* a sixth exchange was answered: twelve turns exchanged, ten kept
C13_Witness ==
    /\ lastOp.op = "chatReply"
    /\ lastOp.outcome = "ok"
    /\ Len(Exchanged(messages)) = 12
    /\ Len(conversationHistory) = 10
    /\ conversationHistory[1].n < conversationHistory[10].n

\* C14: a step that changes the active agent from one agent to another
\* leaves the transcript as exactly one assistant greeting naming the new
\* agent, and the conversation history empty.
C14_SwitchResetsChat ==
    [][ (activeAgent # NoAgent /\ activeAgent' # NoAgent
            /\ activeAgent' # activeAgent)
          => /\ messages' = <<Entry("assistant", "greeting", activeAgent', 0)>>
             /\ conversationHistory' = <<>>
      ]_vars

\* the agent was switched after earlier submissions, while a request made
\* to the agent active before was outstanding
C14_Witness ==
    /\ lastOp.op = "select"
    /\ lastOp.outcome = "activated"
    /\ activeAgent = lastOp.agent
    /\ submits >= 2
    /\ chatCalls >= 2
    /\ inflight # <<>>
    /\ Head(inflight).agent # activeAgent
    /\ Head(inflight).n >= 2
    /\ messages = <<Greeting(activeAgent)>>
    /\ conversationHistory = <<>>

\* C15 (as claimed): every entry of the transcript and of the conversation
\* history belongs to the agent that is active.
C15_HistoryScopedToActiveAgent ==
    (isLoggedIn /\ activeAgent # NoAgent) =>
        /\ \A i \in DOMAIN messages : messages[i].agent = activeAgent
        /\ \A i \in DOMAIN conversationHistory :
              conversationHistory[i].agent = activeAgent

\* C16: the mounted chat never has more than one request outstanding, and a
\* submission made while one is outstanding is rejected: it changes neither
\* the transcript, nor the stored or displayed usage counters, nor the
\* outstanding request, and makes no call to the chat endpoint.
C16_OneRequestInFlight ==
    [][ /\ Len(inflight') <= 1
        /\ (inflight # <<>> /\ lastOp'.op = "submit")
              => /\ lastOp'.outcome = "rejected"
                 /\ UNCHANGED <<messages, conversationHistory, agentUsage,
                                usage, inflight, chatCalls, submits>>
      ]_vars

\* a message was submitted while a request to the chat endpoint was
\* outstanding
C16_Witness ==
    /\ lastOp.op = "submit"
    /\ lastOp.outcome = "rejected"
    /\ isLoading
    /\ Len(inflight) = 1
    /\ Head(inflight).live
    /\ Used(Head(inflight).agent) = 1

\* C17: a submission accepted while no API key is set makes no call to the
\* proxy's chat endpoint, and when its simulated delay has passed the
\* canned response is appended to the transcript, again without a call and
\* without touching the conversation history.
C17_DemoModeStaysLocal ==
    [][ /\ ( /\ lastOp'.op = "submit"
             /\ lastOp'.outcome = "accepted"
             /\ ~Truthy(apiKey) )
          => /\ chatCalls' = chatCalls
             /\ ~inflight'[Len(inflight')].live
        /\ ( /\ inflight # <<>>
             /\ ~Head(inflight).live
             /\ inflight' # inflight
             /\ lastOp'.op \notin {"logout", "reload"} )
          => /\ chatCalls' = chatCalls
             /\ conversationHistory' = conversationHistory
             /\ messages' = Append(messages,
                               Entry("assistant", "demo", Head(inflight).agent,
                                     Head(inflight).n))
      ]_vars

\* a submission made without a key was answered with the canned response
C17_Witness ==
    /\ lastOp.op = "demoReply"
    /\ apiKey = ""
    /\ chatCalls = 0
    /\ submits >= 1
    /\ Len(messages) = 3
    /\ messages[3].kind = "demo"
    /\ messages[2].kind = "user"

(***************************************************************************)
(* Properties of the session and of the key (checked under SpecClient)      *)
(***************************************************************************)
\* C18: the session flag is set only by the step that receives the proxy's
\* success answer to a login, and logout removes it; an answer that is not
\* success (credentials rejected, network error) changes neither the flag
\* nor the logged-in state; the dashboard is never shown without the flag.
C18_SessionFlagFollowsLogin ==
    [][ /\ (sessionFlag' /\ ~sessionFlag)
              => lastOp' = Op("loginReply", NoAgent, "success")
        /\ lastOp'.op = "logout" => (~sessionFlag' /\ ~isLoggedIn')
        /\ (lastOp'.op = "loginReply" /\ lastOp'.outcome # "success")
              => (sessionFlag' = sessionFlag /\ isLoggedIn' = isLoggedIn)
        /\ isLoggedIn' => sessionFlag'
      ]_vars

\* after a session that ended with logout, a login attempt was rejected
C18_Witness ==
    /\ lastOp = Op("loginReply", NoAgent, "rejected")
    /\ chatCalls >= 1
    /\ ~sessionFlag
    /\ ~isLoggedIn

\* C19 (as claimed): a key the identity provider rejects never becomes the
\* dashboard's key or the stored key, and no chat call is made with it.
C19_RejectedKeyStaysDemo ==
    /\ apiKey \notin RejectedKeys
    /\ watsonxApiKey \notin RejectedKeys
    /\ \A i \in DOMAIN inflight :
          inflight[i].live => inflight[i].key \notin RejectedKeys

(***************************************************************************)
(* Properties of the proxy serving two requests (checked under              *)
(* SpecProxyPair)                                                           *)
(***************************************************************************)
\* does the handler of a request with this body exchange the key
ExchangesKey(body) ==
    \/ body.endpoint = "chat" /\ ChatValidate(body) = NoResponse
    \/ body.endpoint = "validate" /\ Truthy(body.apiKey)

\* the response to a request, from its body and from what the upstream
\* services answered to the fetches made for it
ResponseTo(body, iam, chat) ==
    IF body.endpoint = "login"
    THEN LoginResponse(body.username, body.password)
    ELSE IF body.endpoint = "validate"
    THEN IF Truthy(body.apiKey) THEN ValidateComplete(iam)
         ELSE ValidateMissingKey
    ELSE IF ChatValidate(body) # NoResponse THEN ChatValidate(body)
    ELSE IF getIAMToken(iam).threw THEN ChatCatch(getIAMToken(iam).error).resp
    ELSE ChatComplete(chat).resp

\* everything the proxy holds for request r
Served(r) ==
    <<pc[r], req[r], token[r], tokenFetches[r], completionFetches[r],
      tokenReply[r], completionReply[r], sent[r], log[r]>>

\* C20: whatever was served before on the connection and whatever is being
\* served beside it, a chat or validate request that passes validation has
\* made exactly one token exchange, with its own key; the token it holds
\* and sends upstream is the one answered to that exchange; the response
\* it sends is the one its body and the answers to its own fetches
\* determine; and a step taken for one request changes nothing held for
\* the other.
C20_RequestsIndependent ==
    [][ /\ \A r \in Conns :
            /\ (pc'[r] # "idle" /\ ExchangesKey(req'[r]))
                  => tokenFetches'[r] = <<req'[r].apiKey>>
            /\ (pc'[r] # "idle" /\ ~ExchangesKey(req'[r]))
                  => tokenFetches'[r] = <<>>
            /\ token'[r] # Undefined
                  => token'[r] = getIAMToken(tokenReply'[r]).value
            /\ \A i \in DOMAIN completionFetches'[r] :
                  completionFetches'[r][i] =
                      CompletionFetch(getIAMToken(tokenReply'[r]).value,
                                      FullMessages(req'[r]))
            /\ pc'[r] = "done"
                  => sent'[r] = <<ResponseTo(req'[r], tokenReply'[r],
                                             completionReply'[r])>>
        /\ \A q, r \in Conns :
            q # r => (Served(q)' = Served(q) \/ Served(r)' = Served(r))
      ]_vars

\* a chat request was answered with a completion while another chat request
\* with the same key is waiting for its completion: each exchanged the key
\* itself and holds its own token
C20_Witness ==
    /\ pc["req1"] = "done"
    /\ req["req1"].endpoint = "chat"
    /\ req["req1"].apiKey = "key1"
    /\ tokenFetches["req1"] = <<"key1">>
    /\ token["req1"] = "token1"
    /\ sent["req1"][1].status = 200
    /\ pc["req2"] = "chat_completion"
    /\ req["req2"].apiKey = "key1"
    /\ tokenFetches["req2"] = <<"key1">>
    /\ token["req2"] = "token2"
    /\ completionFetches["req2"][1].token = "token2"

(***************************************************************************)
(* Properties of the proxy's handling of one request (checked under         *)
(* SpecProxy and SpecProxyPair)                                             *)
(***************************************************************************)
\* the API keys a caller can post (undefined and '' are no key)
SecretKeys == {k \in ApiKeys : Truthy(k)}

\* the texts of the console lines written for request r
LogTexts(r) ==
    UNION { {log[r][i].label, log[r][i].detail.fixed, log[r][i].detail.upstream} :
              i \in DOMAIN log[r] }

\* the texts of the responses sent for request r
SentTexts(r) ==
    UNION { {sent[r][i].error.fixed, sent[r][i].error.upstream,
             sent[r][i].content, sent[r][i].usage, sent[r][i].message} :
              i \in DOMAIN sent[r] }

\* the keys found anywhere in what the proxy holds for request r
KeysHeld(r) ==
    ( {req[r].apiKey, token[r]}
      \cup {tokenFetches[r][i] : i \in DOMAIN tokenFetches[r]}
      \cup {completionFetches[r][i].token : i \in DOMAIN completionFetches[r]}
      \cup LogTexts(r) \cup SentTexts(r) ) \cap SecretKeys

\* C21: no console line written for a request contains an API key, and the
\* only key found in what the proxy holds for a connection is the key of
\* the request it is serving there: nothing of the key of a request served
\* before on the connection, or beside it, remains.
C21_KeyNeverLoggedOrKept ==
    \A r \in Conns :
        /\ LogTexts(r) \cap SecretKeys = {}
        /\ KeysHeld(r) \subseteq {req[r].apiKey}

\* two requests with different keys have failed, each with a console line
\* written
C21_Witness ==
    /\ pc["req1"] = "done"
    /\ pc["req2"] = "done"
    /\ req["req1"].endpoint = "chat"
    /\ req["req1"].apiKey = "key2"
    /\ req["req2"].apiKey = "key1"
    /\ log["req1"] # <<>>
    /\ log["req2"] # <<>>
    /\ tokenFetches["req1"] = <<"key2">>

\* the messages of a completion fetch f made for a request with this body
\* are a system turn with the given content, then the body's messages
ForwardsWithSystem(f, body, content) ==
    /\ Len(f.messages) = Len(body.messages.items) + 1
    /\ f.messages[1] = [role |-> "system", content |-> content]
    /\ \A j \in DOMAIN body.messages.items :
          f.messages[j + 1] = body.messages.items[j]

\* C22 (as claimed): the system turn's content is the request's
\* systemPrompt, or the default text when the body has no systemPrompt.
C22_SystemPromptOrDefaultWhenOmitted ==
    \A r \in Reqs : \A i \in DOMAIN completionFetches[r] :
        ForwardsWithSystem(completionFetches[r][i], req[r],
            IF req[r].systemPrompt = Undefined
            THEN "You are a helpful assistant." ELSE req[r].systemPrompt)

\* C22 (amended): every completion fetch carries one system turn followed
\* by the request's messages unchanged and in order; the system turn's
\* content is the request's systemPrompt, or the default text when
\* systemPrompt is omitted or is the empty string.
C22_SystemTurnThenMessages ==
    \A r \in Reqs : \A i \in DOMAIN completionFetches[r] :
        ForwardsWithSystem(completionFetches[r][i], req[r],
            IF req[r].systemPrompt \in {Undefined, ""}
            THEN "You are a helpful assistant." ELSE req[r].systemPrompt)

\* three messages were forwarded for a request whose systemPrompt is ''
C22_Witness ==
    \E r \in Reqs :
        /\ req[r].systemPrompt = ""
        /\ Len(req[r].messages.items) = 3
        /\ Len(completionFetches[r]) = 1
        /\ Len(completionFetches[r][1].messages) = 4
        /\ completionFetches[r][1].messages[1].content =
              "You are a helpful assistant."

\* C23: for a chat request, each of the two upstream endpoints is fetched
\* at most once; the completion fetch is made by the step that receives
\* the identity-token endpoint's answer to the exchange made before, and
\* only when getIAMToken returned a token from that answer; after either
\* fetch failed no further fetch is made.
C23_ExchangeThenCompletionOnce ==
    [][ \A r \in Conns :
          req'[r].endpoint = "chat" =>
            /\ Len(tokenFetches'[r]) <= 1
            /\ Len(completionFetches'[r]) <= 1
            /\ completionFetches'[r] # <<>>
                  => /\ tokenFetches'[r] # <<>>
                     /\ tokenReply'[r].outcome = "ok"
            /\ (completionFetches[r] = <<>> /\ completionFetches'[r] # <<>>)
                  => /\ pc[r] = "chat_token"
                     /\ tokenFetches[r] # <<>>
                     /\ tokenFetches'[r] = tokenFetches[r]
            /\ (pc[r] = "done" /\ pc'[r] = "done" /\ req'[r] = req[r])
                  => /\ tokenFetches'[r] = tokenFetches[r]
                     /\ completionFetches'[r] = completionFetches[r]
      ]_vars

\* one chat request ended at a rejected token exchange with no completion
\* fetch, another at a failed completion after one fetch of each endpoint
C23_Witness ==
    /\ pc["req1"] = "done"
    /\ req["req1"].endpoint = "chat"
    /\ tokenReply["req1"].outcome = "rejected"
    /\ tokenFetches["req1"] = <<req["req1"].apiKey>>
    /\ completionFetches["req1"] = <<>>
    /\ pc["req2"] = "done"
    /\ req["req2"].endpoint = "chat"
    /\ completionReply["req2"].status = 503
    /\ Len(tokenFetches["req2"]) = 1
    /\ Len(completionFetches["req2"]) = 1

(***************************************************************************)
(* Further properties of the client (checked under SpecClient)              *)
(***************************************************************************)
\* C24: the steps that call getUsage() without incrementUsage (the
\* dashboard being constructed at login or reload, a click on an agent
\* card) leave the stored record as it is, also when it is stale and
\* getUsage() returns zeroes; the stored record changes only in a step
\* that calls incrementUsage, an accepted submission.
C24_GetUsageWritesNothing ==
    [][ /\ lastOp'.op \in {"loginReply", "reload", "select"}
              => agentUsage' = agentUsage
        /\ agentUsage' # agentUsage
              => /\ lastOp'.op \in {"submit", "otherTab"}
                 /\ lastOp'.outcome = "accepted"
                 /\ agentUsage' = <<[getUsage(agentUsage, today)
                                       EXCEPT ![lastOp'.agent] = @ + 1]>>
      ]_vars

\* an agent was selected on the strength of a zero read from a record of
\* the day before, which is still stored with its count of 200
C24_Witness ==
    /\ lastOp.op = "select"
    /\ lastOp.outcome = "activated"
    /\ agentUsage # <<>>
    /\ agentUsage[1].date # today
    /\ agentUsage[1][lastOp.agent] >= MAX_CALLS_PER_DAY
    /\ usage[lastOp.agent] = 0

\* C25: when every outstanding chat call is answered in the end, a chat
\* whose form is locked (isLoading) is unlocked again later, whether the
\* call succeeds or fails.
C25_SendingReturnsToInput ==
    isLoading ~> ~isLoading

\* a failed chat call has been answered and the form is unlocked again
C25_Witness ==
    /\ lastOp.op = "chatReply"
    /\ lastOp.outcome = "error"
    /\ isLoggedIn
    /\ activeAgent # NoAgent
    /\ ~isLoading
    /\ inflight = <<>>
    /\ messages[Len(messages)].kind = "error"

\* the transcript ends with the user's message of a submission and the
\* assistant's answer of the given kind to that same submission
EndsWithExchange(kind) ==
    /\ Len(messages) >= 2
    /\ messages[Len(messages) - 1].kind = "user"
    /\ messages[Len(messages)].kind = kind
    /\ messages[Len(messages)].n = messages[Len(messages) - 1].n
    /\ messages[Len(messages)].agent = messages[Len(messages) - 1].agent

\* C26: once a chat request has failed, the visible transcript ends with the
\* user's message followed by one assistant error message for it, and the
\* error banner is set; once any accepted submission has been answered, its
\* two entries are the last two of the transcript.
C26_FailedExchangeShown ==
    /\ (lastOp.op = "chatReply" /\ lastOp.outcome = "error")
            => EndsWithExchange("error") /\ chatError # ""
    /\ (lastOp.op = "chatReply" /\ lastOp.outcome = "ok")
            => EndsWithExchange("reply")
    /\ lastOp.op = "demoReply" => EndsWithExchange("demo")

\* C27: a step in which the chat form accepts a submission raises the counter
\* getUsage() reads for the active agent by exactly one, leaves the other
\* agent's counter alone and shows the stored record, with or without an API
\* key set; a rejected submission (blank input, or one made while a request is
\* outstanding) and the later answer, success or failure, change neither the
\* stored record nor the displayed one.
C27_AcceptedSubmissionCountsOnce ==
    [][ /\ (lastOp'.op = "submit" /\ lastOp'.outcome = "accepted")
            => /\ getUsage(agentUsage', today')[activeAgent]
                      = Used(activeAgent) + 1
               /\ \A b \in Agents \ {activeAgent} :
                      getUsage(agentUsage', today')[b] = Used(b)
               /\ usage' = getUsage(agentUsage', today')
               /\ inflight'[Len(inflight')].live = Truthy(apiKey)
        /\ (lastOp'.op = "submit" /\ lastOp'.outcome = "rejected")
            => UNCHANGED <<agentUsage, usage>>
        /\ lastOp'.op \in {"chatReply", "demoReply"}
            => UNCHANGED <<agentUsage, usage>>
      ]_vars

\* one agent has answered a demo submission and then failed a live one, and
\* its counter stands at two
C27_Witness ==
    /\ lastOp.op = "chatReply"
    /\ lastOp.outcome = "error"
    /\ lastOp.agent = activeAgent
    /\ Len(messages) = 5
    /\ messages[3].kind = "demo"
    /\ messages[5].kind = "error"
    /\ agentUsage = <<usage>>
    /\ usage[activeAgent] = 2

\* C28: the stored API key changes only in a step that saves or clears it in
\* the key configuration; saving stores the key typed, saving an empty key
\* and clearing leave no key stored; every other step (login, logout, reload,
\* agent selection, chat submission and its answer, midnight) leaves it as
\* it was, and a dashboard mounted after login or reload starts
\* from the stored key.
C28_StoredKeyPersists ==
    [][ /\ watsonxApiKey' # watsonxApiKey
            => lastOp'.op \in {"saveKey", "clearKey"}
        /\ lastOp'.op \in {"login", "loginReply", "logout", "select", "submit"}
            => watsonxApiKey' = watsonxApiKey
        /\ lastOp'.op = "saveKey"
            => /\ watsonxApiKey' = lastOp'.outcome
               /\ apiKey' = lastOp'.outcome
        /\ lastOp'.op = "clearKey"
            => watsonxApiKey' = "" /\ apiKey' = ""
        /\ (isLoggedIn' /\ lastOp'.op \in {"loginReply", "reload"})
            => apiKey' = watsonxApiKey
      ]_vars

\* a key was saved, the user logged out and in again, and the key is in use
C28_Witness ==
    /\ lastOp.op = "loginReply"
    /\ lastOp.outcome = "success"
    /\ isLoggedIn
    /\ watsonxApiKey = "key1"
    /\ apiKey = "key1"

\* a history of whole exchanges: user turn, assistant turn, user turn, ...
Alternates(h) ==
    /\ Len(h) % 2 = 0
    /\ \A i \in 1..Len(h) :
          h[i].role = IF i % 2 = 1 THEN "user" ELSE "assistant"

\* C29: before and after every step the conversation history has even
\* length and alternates user and assistant turns, starting with a user turn
\* (also when it is cut to its last 10 entries); the step in which a request
\* fails and the step that ends a demo exchange leave the history as it was.
C29_HistoryAlternates ==
    [][ /\ Alternates(conversationHistory)
        /\ Alternates(conversationHistory')
        /\ (lastOp'.op = "chatReply" /\ lastOp'.outcome = "error")
            => UNCHANGED conversationHistory
        /\ lastOp'.op = "demoReply" => UNCHANGED conversationHistory
      ]_vars

\* five live exchanges are in the history, and a demo exchange has just
\* ended without adding to it
C29_Witness ==
    /\ lastOp.op = "demoReply"
    /\ Len(conversationHistory) = 10
    /\ messages[Len(messages)].kind = "demo"
    /\ messages[Len(messages)].n = 6

\* the statuses a chat request can be answered with: 400, 200, 500, or the
\* status of a failed upstream call
ChatStatuses == {200, 400, 500} \cup FailStatuses

\* C30: a chat request has no response while its handler waits for an
\* upstream answer and exactly one once the handler has finished, whichever
\* way it ended: 400 for a body that fails validation (and then nothing was
\* fetched), otherwise 200, 500 or the status of the failed upstream call;
\* and once a request has been answered, with a failure or not, the next
\* request can be received in its place.
C30_ExactlyOneResponse ==
    \A r \in Conns :
        (req[r].endpoint = "chat" /\ pc[r] # "idle") =>
            /\ pc[r] \in {"chat_token", "chat_completion", "done"}
            /\ pc[r] # "done" => sent[r] = <<>>
            /\ pc[r] = "done" =>
                /\ Len(sent[r]) = 1
                /\ sent[r][1].status \in ChatStatuses
                /\ sent[r][1].status = 400 <=> ChatValidate(req[r]) # NoResponse
                /\ sent[r][1].status = 400 => tokenFetches[r] = <<>>
                /\ ENABLED ChatReceive(r)

\* one chat request has failed with an exception and got its one 500
\* response, and the proxy has answered another with a completion
C30_Witness ==
    /\ \E r \in Reqs :
        /\ ChatDone(r)
        /\ Len(sent[r]) = 1
        /\ sent[r][1].status = 500
        /\ log[r] # <<>>
    /\ \E q \in Others :
        /\ ChatDone(q)
        /\ Len(sent[q]) = 1
        /\ sent[q][1].status = 200

====
